---------------------------- MODULE Spec2Model ----------------------------
(***************************************************************************)
(* Hot-reloadable relay settings (relay/src/setting.rs).                   *)
(*                                                                         *)
(* Setting::read layers one configuration file over the compiled-in        *)
(* defaults; Setting::watch publishes the result behind an                 *)
(* Arc<RwLock<Setting>> and registers a notify watcher whose callback      *)
(* re-reads the file on every Modify event and assigns the new Setting     *)
(* under the write lock.                                                   *)
(*                                                                         *)
(* Modelled: the file's content, the watcher's event channel, the          *)
(* callback's position (it runs on the watcher's single thread), the       *)
(* parking_lot RwLock (writer bit, shared holders), the reader threads     *)
(* that read through the handle, and the constructor that was called.      *)
(***************************************************************************)
EXTENDS Integers, Sequences, FiniteSets, TLC

(***************************************************************************)
(* Bounds of the model.                                                    *)
(***************************************************************************)
\* events the watcher's channel holds before the file system is held back
MaxQueue == 1
\* reader threads holding a clone of the handle
NumReaders == 1

(***************************************************************************)
(* The Setting document.  The fields kept are one per typed section the    *)
(* properties speak about: information.name (Option<String>),             *)
(* network.port (u16), network.heartbeat_timeout and                       *)
(* network.heartbeat_interval (u64), limitation.max_subscriptions (u64).   *)
(***************************************************************************)
Fields == <<"name", "port", "heartbeat_timeout", "heartbeat_interval",
            "max_subscriptions">>

FieldSet == {Fields[i] : i \in 1..Len(Fields)}

\* Option::None of information.name
None == <<"None">>

Some(s) == <<"Some", s>>

DefaultPort == 7707
DefaultHeartbeatInterval == 60
DefaultHeartbeatTimeout == 120
DefaultMaxSubscriptions == 20
U16Max == 65535

\* Setting::default(): the derived Default over the sections' Default impls
Setting_default ==
    [name |-> None,
     port |-> DefaultPort,
     heartbeat_timeout |-> DefaultHeartbeatTimeout,
     heartbeat_interval |-> DefaultHeartbeatInterval,
     max_subscriptions |-> DefaultMaxSubscriptions]

\* the serde type of each field
FieldType(f) ==
    CASE f = "name" -> "Option<String>"
      [] f = "port" -> "u16"
      [] OTHER -> "u64"

(***************************************************************************)
(* File contents.  A content is a syntactically well-formed or malformed   *)
(* TOML text; a well-formed one sets some fields to raw values, an integer *)
(* <<"int", n>> or a string <<"str", s>>, and leaves the others unset.     *)
(***************************************************************************)
Unset == <<"unset">>

Int_(n) == <<"int", n>>

Str_(s) == <<"str", s>>

NoFields == [f \in FieldSet |-> Unset]

\* the path does not name a file
Missing == [syntax |-> FALSE, tbl |-> NoFields, exists |-> FALSE]

Content(syntax, tbl) == [syntax |-> syntax, tbl |-> tbl, exists |-> TRUE]

\* an empty file (what the tests' tempfile holds before it is written)
EmptyFile == Content(TRUE, NoFields)

\* [information] name = "nostr"   (the tests' content)
NameNostr == Content(TRUE, [NoFields EXCEPT !["name"] = Str_("nostr")])

\* [network] heartbeat_timeout = 30
TimeoutSet == Content(TRUE, [NoFields EXCEPT !["heartbeat_timeout"] = Int_(30)])

\* a text that is no TOML
BadSyntax == Content(FALSE, NoFields)

\* [network] port = "abc"
BadPort == Content(TRUE, [NoFields EXCEPT !["port"] = Str_("abc")])

Contents == {EmptyFile, NameNostr, TimeoutSet, BadSyntax, BadPort}

FileStates == Contents \cup {Missing}

(***************************************************************************)
(* Setting::read.                                                          *)
(***************************************************************************)
\* the strings str::parse::<i64> accepts, among the strings of the contents
ParsedInt(s) ==
    CASE s = "30" -> 30
      [] s = "7707" -> 7707
      [] OTHER -> -1

IsNumeric(s) == ParsedInt(s) >= 0

Ok(doc) == [ok |-> TRUE, doc |-> doc]

Err == [ok |-> FALSE]

\* config's Value deserialized into one field's type
Deserialize(f, raw) ==
    CASE FieldType(f) = "Option<String>" ->
            IF raw[1] = "str" THEN Ok(Some(raw[2]))
            ELSE Ok(Some(ToString(raw[2])))
      [] FieldType(f) = "u16" ->
            IF raw[1] = "int"
            THEN IF raw[2] >= 0 /\ raw[2] <= U16Max THEN Ok(raw[2]) ELSE Err
            ELSE IF IsNumeric(raw[2]) THEN Ok(ParsedInt(raw[2])) ELSE Err
      [] OTHER ->
            IF raw[1] = "int"
            THEN IF raw[2] >= 0 THEN Ok(raw[2]) ELSE Err
            ELSE IF IsNumeric(raw[2]) THEN Ok(ParsedInt(raw[2])) ELSE Err

\* the section of the Setting a field is in
Section(f) ==
    CASE f = "name" -> "information"
      [] f = "max_subscriptions" -> "limitation"
      [] OTHER -> "network"

\* the file source can be read and parsed, and every value it sets fits its field
Accepts(c) ==
    /\ c.exists
    /\ c.syntax
    /\ \A f \in FieldSet : c.tbl[f] # Unset => Deserialize(f, c.tbl[f]).ok

\* a merge by whole sections: a section the file sets in part loses the
\* defaults of its other fields
LayeredBySection(base, c) ==
    [f \in FieldSet |->
        IF c.tbl[f] # Unset THEN Deserialize(f, c.tbl[f]).doc
        ELSE IF \E g \in FieldSet : Section(g) = Section(f) /\ c.tbl[g] # Unset
             THEN (IF f = "name" THEN None ELSE 0)
             ELSE base[f]]

\* the layered config: the file's values over the base's, field by field
Layered(base, c) ==
    [f \in FieldSet |->
        IF c.tbl[f] = Unset THEN base[f] ELSE Deserialize(f, c.tbl[f]).doc]

\* a read that puts the default in the place of a value that does not fit its field
read_lossy(c) ==
    IF c.exists /\ c.syntax
    THEN Ok([f \in FieldSet |->
                IF c.tbl[f] # Unset /\ Deserialize(f, c.tbl[f]).ok
                THEN Deserialize(f, c.tbl[f]).doc
                ELSE Setting_default[f]])
    ELSE Err

\* a read that answers a file it cannot load with the defaults
read_or_default(c) ==
    IF Accepts(c) THEN Ok(Layered(Setting_default, c)) ELSE Ok(Setting_default)

\* Setting::read(file): Ok(setting) or Err
read(c) ==
    IF Accepts(c) THEN Ok(Layered(Setting_default, c)) ELSE Err

(***************************************************************************)
(* State.                                                                  *)
(***************************************************************************)
VARIABLES
    file,           \* what the path holds: a content, or Missing
    ctor,           \* the constructor called and how far it got
    setting,        \* the Setting inside the Arc<RwLock<Setting>>, or NoSetting
    watcher,        \* the RecommendedWatcher: "none", "created", "watching", "dropped"
    queue,          \* the results the watcher still has to hand to the callback
    event,          \* the event the callback was called with, until its read
    lpc,            \* where the callback is (it runs on the watcher's one thread)
    new_setting,    \* the callback's local new_setting
    new_src,        \* the content new_setting was read from
    widx,           \* the next field the assignment *w = new_setting copies
    w_bit,          \* the lock's writer bit (set by write() until the guard drops)
    rpc,            \* each reader thread's position
    snap,           \* what a reader saw when it got its read guard
    obs,            \* what a reader saw when it looked again through the guard
    log,            \* the line the callback logged last
    published,      \* the Setting most recently stored as a whole
    published_src   \* the content it was read from

vars == <<file, ctor, setting, watcher, queue, event, lpc, new_setting, new_src, widx,
          w_bit, rpc, snap, obs, log, published, published_src>>

\* no Setting: the handle does not exist, or the local is not bound
NoSetting == [none |-> TRUE]

\* no file content behind a Setting (Setting::default_wrapper)
NoSource == [none |-> TRUE]

Readers == 1..NumReaders

\* notify's EventKind of an Ok(event), and "Error" for an Err(e)
EventKinds == {"Create", "Modify(Data)", "Modify(Metadata)", "Remove"}

Results == EventKinds \cup {"Error"}

\* a test that lets every event through
is_any(k) == k \in EventKinds

\* EventKind::is_modify: matches!(self, EventKind::Modify(_))
is_modify(k) == k \in {"Modify(Data)", "Modify(Metadata)"}

Init ==
    /\ file \in FileStates
    /\ ctor = [fn |-> "none", pc |-> "start"]
    /\ setting = NoSetting
    /\ watcher = "none"
    /\ queue = <<>>
    /\ event = "none"
    /\ lpc = "idle"
    /\ new_setting = NoSetting
    /\ new_src = NoSource
    /\ widx = 0
    /\ w_bit = FALSE
    /\ rpc = [r \in Readers |-> "idle"]
    /\ snap = [r \in Readers |-> NoSetting]
    /\ obs = [r \in Readers |-> NoSetting]
    /\ log = "none"
    /\ published = NoSetting
    /\ published_src = NoSource

(***************************************************************************)
(* The constructors.                                                       *)
(***************************************************************************)
Started == ctor.pc = "start"

\* the caller holds a handle
Open == ctor.pc = "ok"

Returned(fn, pc) == [fn |-> fn, pc |-> pc]

\* the constructor returned Err(e)
Failed == ctor.pc \in {"err_read", "err_new", "err_watch"}

\* Arc::new(RwLock::new(doc))
NewArc(doc, src) ==
    /\ setting' = doc
    /\ published' = doc
    /\ published_src' = src

\* Setting::default_wrapper()
DefaultWrapper ==
    /\ Started
    /\ NewArc(Setting_default, NoSource)
    /\ ctor' = Returned("default_wrapper", "ok")
    /\ UNCHANGED <<file, watcher, queue, event, lpc, new_setting, new_src, widx, w_bit,
                   rpc, snap, obs, log>>

\* Setting::read_wrapper(file)
ReadWrapper ==
    /\ Started
    /\ LET res == read(file)
       IN  IF res.ok
           THEN /\ NewArc(res.doc, file)
                /\ ctor' = Returned("read_wrapper", "ok")
           ELSE /\ ctor' = Returned("read_wrapper", "err_read")
                /\ UNCHANGED <<setting, published, published_src>>
    /\ UNCHANGED <<file, watcher, queue, event, lpc, new_setting, new_src, widx, w_bit,
                   rpc, snap, obs, log>>

\* Setting::watch(file): let setting = Self::read(&file)?; and the Arc around it
WatchRead ==
    /\ Started
    /\ LET res == read(file)
       IN  IF res.ok
           THEN /\ NewArc(res.doc, file)
                /\ ctor' = Returned("watch", "new")
           ELSE /\ ctor' = Returned("watch", "err_read")
                /\ UNCHANGED <<setting, published, published_src>>
    /\ UNCHANGED <<file, watcher, queue, event, lpc, new_setting, new_src, widx, w_bit,
                   rpc, snap, obs, log>>

\* an early return that leaves the watcher it made alive and watching
WatchFailsLeaks(pc, w) ==
    /\ ctor' = Returned("watch", pc)
    /\ watcher' = IF w = "dropped" THEN "watching" ELSE w
    /\ setting' = NoSetting
    /\ published' = NoSetting
    /\ published_src' = NoSource

\* an early return by ?: the locals, the Arc among them, are dropped
WatchFails(pc, w) ==
    /\ ctor' = Returned("watch", pc)
    /\ watcher' = w
    /\ setting' = NoSetting
    /\ published' = NoSetting
    /\ published_src' = NoSource

\* RecommendedWatcher::new(callback, config)?
WatcherNew ==
    /\ ctor = Returned("watch", "new")
    /\ \E created \in BOOLEAN :
          IF created
          THEN /\ watcher' = "created"
               /\ ctor' = Returned("watch", "watch")
               /\ UNCHANGED <<setting, published, published_src>>
          ELSE WatchFails("err_new", "none")
    /\ UNCHANGED <<file, queue, event, lpc, new_setting, new_src, widx, w_bit, rpc,
                   snap, obs, log>>

\* watcher.watch(file, NonRecursive)?; Ok((setting, watcher))
WatcherWatch ==
    /\ ctor = Returned("watch", "watch")
    /\ \E registered \in BOOLEAN :
          /\ file = Missing => ~registered
          /\ IF registered
             THEN /\ watcher' = "watching"
                  /\ ctor' = Returned("watch", "ok")
                  /\ UNCHANGED <<setting, published, published_src>>
             ELSE WatchFails("err_watch", "dropped")
    /\ UNCHANGED <<file, queue, event, lpc, new_setting, new_src, widx, w_bit, rpc,
                   snap, obs, log>>

\* a drop that leaves the results already queued to be handed to the callback
DropWatcherKeepsQueue ==
    /\ Open
    /\ watcher = "watching"
    /\ watcher' = "dropped"
    /\ UNCHANGED <<queue, file, ctor, setting, event, lpc, new_setting, new_src, widx,
                   w_bit, rpc, snap, obs, log, published, published_src>>

\* the caller drops the watcher it was handed: the results not yet handed to the
\* callback are discarded, a call of the callback under way runs to its end
DropWatcher ==
    /\ Open
    /\ watcher = "watching"
    /\ watcher' = "dropped"
    /\ queue' = <<>>
    /\ UNCHANGED <<file, ctor, setting, event, lpc, new_setting, new_src, widx, w_bit,
                   rpc, snap, obs, log, published, published_src>>

(***************************************************************************)
(* The file system and the notification source.                            *)
(***************************************************************************)
Watching == watcher = "watching"

\* the notification source hands one more result to the watcher
Emit(k) ==
    IF Watching
    THEN /\ Len(queue) < MaxQueue
         /\ queue' = Append(queue, k)
    ELSE UNCHANGED queue

\* the file is written (fs::write): created if it was missing
FileWrite(c) ==
    /\ file # c
    /\ file' = c
    /\ Emit(IF file = Missing THEN "Create" ELSE "Modify(Data)")
    /\ UNCHANGED <<ctor, setting, watcher, event, lpc, new_setting, new_src, widx,
                   w_bit, rpc, snap, obs, log, published, published_src>>

\* the file is removed
FileRemove ==
    /\ file # Missing
    /\ file' = Missing
    /\ Emit("Remove")
    /\ UNCHANGED <<ctor, setting, watcher, event, lpc, new_setting, new_src, widx,
                   w_bit, rpc, snap, obs, log, published, published_src>>

\* an event with the content unchanged (a duplicate, a metadata change, a
\* spurious wakeup), or an error of the notification source
Notify(k) ==
    /\ Watching
    /\ Emit(k)
    /\ UNCHANGED <<file, ctor, setting, watcher, event, lpc, new_setting, new_src, widx,
                   w_bit, rpc, snap, obs, log, published, published_src>>

(***************************************************************************)
(* The callback given to RecommendedWatcher::new.                          *)
(***************************************************************************)
\* a callback that reloads on an Err(e) of the notification source as well
TakeEventReloads ==
    /\ lpc = "idle"
    /\ queue # <<>>
    /\ queue' = Tail(queue)
    /\ lpc' = IF is_modify(Head(queue)) \/ Head(queue) = "Error" THEN "read" ELSE "idle"
    /\ event' = IF lpc' = "read" THEN Head(queue) ELSE "none"
    /\ log' = IF Head(queue) = "Error" THEN "failed to watch file" ELSE log
    /\ UNCHANGED <<file, ctor, setting, watcher, new_setting, new_src, widx,
                   w_bit, rpc, snap, obs, published, published_src>>

\* a callback that takes the write lock first and loads the file under it
TakeEventLocks ==
    /\ lpc = "idle"
    /\ queue # <<>>
    /\ queue' = Tail(queue)
    /\ lpc' = IF is_modify(Head(queue)) THEN "read" ELSE "idle"
    /\ w_bit' = is_modify(Head(queue))
    /\ event' = IF lpc' = "read" THEN Head(queue) ELSE "none"
    /\ log' = IF Head(queue) = "Error" THEN "failed to watch file" ELSE log
    /\ UNCHANGED <<file, ctor, setting, watcher, new_setting, new_src, widx,
                   rpc, snap, obs, published, published_src>>

\* a callback that is called again while a call of it is under way
TakeEventReentrant ==
    /\ queue # <<>>
    /\ queue' = Tail(queue)
    /\ lpc' = IF is_modify(Head(queue)) THEN "read" ELSE lpc
    /\ event' = IF is_modify(Head(queue)) THEN Head(queue) ELSE event
    /\ log' = IF Head(queue) = "Error" THEN "failed to watch file" ELSE log
    /\ UNCHANGED <<file, ctor, setting, watcher, new_setting, new_src, widx,
                   w_bit, rpc, snap, obs, published, published_src>>

\* match result { Ok(event) => if event.kind.is_modify() {..}, Err(e) => error!(..) }
TakeEvent ==
    /\ lpc = "idle"
    /\ queue # <<>>
    /\ queue' = Tail(queue)
    /\ LET result == Head(queue)
       IN  IF result = "Error"
           THEN /\ log' = "failed to watch file"
                /\ lpc' = "idle"
                /\ event' = "none"
           ELSE IF is_modify(result)
                THEN /\ lpc' = "read"
                     /\ event' = result
                     /\ log' = log
                ELSE /\ lpc' = "idle"
                     /\ event' = "none"
                     /\ log' = log
    /\ UNCHANGED <<file, ctor, setting, watcher, new_setting, new_src, widx,
                   w_bit, rpc, snap, obs, published, published_src>>

\* a callback that stores the defaults when the file cannot be loaded
CallbackReadClobber ==
    /\ lpc = "read"
    /\ LET res == read(file)
       IN  IF res.ok
           THEN /\ new_setting' = res.doc
                /\ new_src' = file
                /\ log' = "Reload config success"
                /\ lpc' = "write"
                /\ event' = "none"
                /\ UNCHANGED setting
           ELSE /\ log' = "failed to reload config"
                /\ lpc' = "idle"
                /\ setting' = Setting_default
                /\ event' = "none"
                /\ UNCHANGED <<new_setting, new_src>>
    /\ UNCHANGED <<file, ctor, watcher, queue, widx, w_bit, rpc, snap,
                   obs, published, published_src>>

\* a callback that unwraps the result of read: the watcher's thread ends with it
CallbackReadPanics ==
    /\ lpc = "read"
    /\ LET res == read(file)
       IN  IF res.ok
           THEN /\ new_setting' = res.doc
                /\ new_src' = file
                /\ log' = "Reload config success"
                /\ lpc' = "write"
                /\ event' = "none"
           ELSE /\ log' = "failed to reload config"
                /\ lpc' = "dead"
                /\ event' = "none"
                /\ UNCHANGED <<new_setting, new_src>>
    /\ UNCHANGED <<file, ctor, setting, watcher, queue, widx, w_bit, rpc,
                   snap, obs, published, published_src>>

\* a callback that loads the content the constructor saw, not the file's
CallbackReadCached ==
    /\ lpc = "read"
    /\ new_setting' = published
    /\ new_src' = published_src
    /\ log' = "Reload config success"
    /\ lpc' = "write"
    /\ event' = "none"
    /\ UNCHANGED <<file, ctor, setting, watcher, queue, widx, w_bit, rpc,
                   snap, obs, published, published_src>>

\* a callback that lays the file over the Setting in the store, not over the defaults
CallbackReadOverCurrent ==
    /\ lpc = "read"
    /\ IF Accepts(file)
       THEN /\ new_setting' = Layered(setting, file)
            /\ new_src' = file
            /\ log' = "Reload config success"
            /\ lpc' = "write"
            /\ event' = "none"
       ELSE /\ log' = "failed to reload config"
            /\ lpc' = "idle"
            /\ event' = "none"
            /\ UNCHANGED <<new_setting, new_src>>
    /\ UNCHANGED <<file, ctor, setting, watcher, queue, widx, w_bit, rpc, snap,
                   obs, published, published_src>>

\* a callback that stores the defaults, through the lock, when the file cannot
\* be loaded
CallbackReadResets ==
    /\ lpc = "read"
    /\ new_setting' = IF Accepts(file) THEN Layered(Setting_default, file)
                      ELSE Setting_default
    /\ new_src' = IF Accepts(file) THEN file ELSE EmptyFile
    /\ log' = "Reload config success"
    /\ lpc' = "write"
    /\ event' = "none"
    /\ UNCHANGED <<file, ctor, setting, watcher, queue, widx, w_bit, rpc, snap,
                   obs, published, published_src>>

\* match Self::read(&c_file) { Ok(new_setting) => info!(..), Err(e) => error!(..) }
CallbackRead ==
    /\ lpc = "read"
    /\ LET res == read(file)
       IN  IF res.ok
           THEN /\ new_setting' = res.doc
                /\ new_src' = file
                /\ log' = "Reload config success"
                /\ lpc' = "write"
                /\ event' = "none"
           ELSE /\ log' = "failed to reload config"
                /\ lpc' = "idle"
                /\ event' = "none"
                /\ UNCHANGED <<new_setting, new_src>>
    /\ UNCHANGED <<file, ctor, setting, watcher, queue, widx, w_bit, rpc, snap,
                   obs, published, published_src>>

\* c_setting.write(): the writer bit is taken, new readers are held back
WriteLock ==
    /\ lpc = "write"
    /\ w_bit' = TRUE
    /\ lpc' = "wait"
    /\ UNCHANGED <<event, file, ctor, setting, watcher, queue, new_setting, new_src,
                   widx, rpc, snap, obs, log, published, published_src>>

\* a write() that does not wait for the read guards
WriteLockedEager ==
    /\ lpc = "wait"
    /\ lpc' = "assign"
    /\ widx' = 1
    /\ UNCHANGED <<event, file, ctor, setting, watcher, queue, new_setting, new_src,
                   w_bit, rpc, snap, obs, log, published, published_src>>

\* write() returns the guard w once the read guards are gone
WriteLocked ==
    /\ lpc = "wait"
    /\ {r \in Readers : rpc[r] \in {"held", "observed"}} = {}
    /\ lpc' = "assign"
    /\ widx' = 1
    /\ UNCHANGED <<event, file, ctor, setting, watcher, queue, new_setting, new_src,
                   w_bit, rpc, snap, obs, log, published, published_src>>

\* an assignment of the defaults in place of the loaded Setting
AssignDefault(cur, new, f) == [cur EXCEPT ![f] = Setting_default[f]]

\* one field of *w = new_setting
AssignField(cur, new, f) == [cur EXCEPT ![f] = new[f]]

\* *w = new_setting, a field at a time
Assign ==
    /\ lpc = "assign"
    /\ setting' = AssignField(setting, new_setting, Fields[widx])
    /\ IF widx = Len(Fields)
       THEN /\ widx' = 0
            /\ lpc' = "unlock"
            /\ published' = new_setting
            /\ published_src' = new_src
       ELSE /\ widx' = widx + 1
            /\ UNCHANGED <<event, lpc, published, published_src>>
    /\ UNCHANGED <<event, file, ctor, watcher, queue, new_setting, new_src, w_bit, rpc,
                   snap, obs, log>>

\* the guard w and new_setting go out of scope; the callback returns
\* a write guard that is never dropped: the callback returns with the lock held
UnlockLeaks ==
    /\ lpc = "unlock"
    /\ lpc' = "idle"
    /\ new_setting' = NoSetting
    /\ new_src' = NoSource
    /\ UNCHANGED <<w_bit, event, file, ctor, setting, watcher, queue, widx, rpc, snap,
                   obs, log, published, published_src>>

Unlock ==
    /\ lpc = "unlock"
    /\ w_bit' = FALSE
    /\ lpc' = "idle"
    /\ new_setting' = NoSetting
    /\ new_src' = NoSource
    /\ UNCHANGED <<event, file, ctor, setting, watcher, queue, widx, rpc, snap, obs,
                   log, published, published_src>>

Callback == TakeEvent \/ CallbackRead \/ WriteLock \/ WriteLocked \/ Assign \/ Unlock

(***************************************************************************)
(* Reader threads: setting.read() on a clone of the handle.                *)
(***************************************************************************)
\* a shared lock granted whatever the writer bit
SharedAlways == TRUE

\* a shared lock is granted while the writer bit is clear
SharedFree == ~w_bit

\* a thread calls setting.read()
ReadRequest(r) ==
    /\ Open
    /\ rpc[r] = "idle"
    /\ rpc' = [rpc EXCEPT ![r] = "want"]
    /\ UNCHANGED <<file, ctor, setting, watcher, queue, event, lpc, new_setting,
                   new_src, widx, w_bit, snap, obs, log, published, published_src>>

\* read() returns the read guard; the thread looks at the Setting
ReadLock(r) ==
    /\ rpc[r] = "want"
    /\ SharedFree
    /\ rpc' = [rpc EXCEPT ![r] = "held"]
    /\ snap' = [snap EXCEPT ![r] = setting]
    /\ UNCHANGED <<file, ctor, setting, watcher, queue, event, lpc, new_setting,
                   new_src, widx, w_bit, obs, log, published, published_src>>

\* a reader that takes the Setting out of the cell, leaving the defaults
ObserveTake(r) ==
    /\ rpc[r] = "held"
    /\ rpc' = [rpc EXCEPT ![r] = "observed"]
    /\ obs' = [obs EXCEPT ![r] = setting]
    /\ setting' = Setting_default
    /\ UNCHANGED <<file, ctor, watcher, queue, event, lpc, new_setting,
                   new_src, widx, w_bit, snap, log, published, published_src>>

\* the thread looks at the Setting again through the same guard
Observe(r) ==
    /\ rpc[r] = "held"
    /\ rpc' = [rpc EXCEPT ![r] = "observed"]
    /\ obs' = [obs EXCEPT ![r] = setting]
    /\ UNCHANGED <<file, ctor, setting, watcher, queue, event, lpc, new_setting,
                   new_src, widx, w_bit, snap, log, published, published_src>>

\* the read guard is dropped
ReadUnlock(r) ==
    /\ rpc[r] \in {"held", "observed"}
    /\ rpc' = [rpc EXCEPT ![r] = "idle"]
    /\ snap' = [snap EXCEPT ![r] = NoSetting]
    /\ obs' = [obs EXCEPT ![r] = NoSetting]
    /\ UNCHANGED <<file, ctor, setting, watcher, queue, event, lpc, new_setting,
                   new_src, widx, w_bit, log, published, published_src>>

(***************************************************************************)
(* Specifications.                                                         *)
(***************************************************************************)
Next ==
    \/ DefaultWrapper
    \/ ReadWrapper
    \/ WatchRead
    \/ WatcherNew
    \/ WatcherWatch
    \/ DropWatcher
    \/ \E c \in Contents : FileWrite(c)
    \/ FileRemove
    \/ \E k \in Results : Notify(k)
    \/ TakeEvent
    \/ CallbackRead
    \/ WriteLock
    \/ WriteLocked
    \/ Assign
    \/ Unlock
    \/ \E r \in Readers : ReadRequest(r)
    \/ \E r \in Readers : ReadLock(r)
    \/ \E r \in Readers : Observe(r)
    \/ \E r \in Readers : ReadUnlock(r)

Spec == Init /\ [][Next]_vars

\* the watcher's thread keeps running, and a thread that holds a read guard
\* looks at the Setting and lets the guard go
LiveSpec ==
    /\ Spec
    /\ WF_vars(Callback)
    /\ \A r \in Readers : WF_vars(Observe(r) \/ ReadUnlock(r))

\* the lock is fair as well: a thread parked in setting.read() is not passed
\* over for ever by a writer that takes the lock again and again
FairSpec ==
    /\ LiveSpec
    /\ \A r \in Readers : SF_vars(ReadLock(r))

(***************************************************************************)
(* The file as a sequence of versions: every write brings a later version, *)
(* and the versions differ, so that a Setting tells the version it is of.  *)
(***************************************************************************)
Versions == <<EmptyFile, NameNostr, BadSyntax, Missing, TimeoutSet, BadPort>>

\* the place of a state of the file among the versions
Rank(c) == CHOOSE i \in 1..Len(Versions) : Versions[i] = c

\* the file goes on to a later version
WriteLater == \E c \in Contents : Rank(c) > Rank(file) /\ FileWrite(c)

RemoveLater == Rank(Missing) > Rank(file) /\ FileRemove

VerNext ==
    \/ DefaultWrapper
    \/ ReadWrapper
    \/ WatchRead
    \/ WatcherNew
    \/ WatcherWatch
    \/ DropWatcher
    \/ WriteLater
    \/ RemoveLater
    \/ \E k \in Results : Notify(k)
    \/ TakeEvent
    \/ CallbackRead
    \/ WriteLock
    \/ WriteLocked
    \/ Assign
    \/ Unlock
    \/ \E r \in Readers : ReadRequest(r)
    \/ \E r \in Readers : ReadLock(r)
    \/ \E r \in Readers : Observe(r)
    \/ \E r \in Readers : ReadUnlock(r)

VerSpec == Init /\ [][VerNext]_vars

(***************************************************************************)
(* Setting::read on its own: the constructors' first read, over a wider    *)
(* set of files.                                                           *)
(***************************************************************************)
\* the values a file gives a field
RawChoices(f) ==
    CASE f = "name" -> {Unset, Str_("nostr")}
      [] f = "port" -> {Unset, Int_(8080), Str_("abc")}
      [] f = "heartbeat_timeout" -> {Unset, Int_(30)}
      [] f = "heartbeat_interval" -> {Unset, Int_(90)}
      [] OTHER -> {Unset, Int_(50)}

Tables ==
    {t \in [FieldSet -> UNION {RawChoices(f) : f \in FieldSet}] :
        \A f \in FieldSet : t[f] \in RawChoices(f)}

\* well-formed and malformed texts around every table, and no file at all
LoaderInputs == {Content(s, t) : s \in BOOLEAN, t \in Tables} \cup {Missing}

LoaderInit ==
    /\ file \in LoaderInputs
    /\ ctor = [fn |-> "none", pc |-> "start"]
    /\ setting = NoSetting
    /\ watcher = "none"
    /\ queue = <<>>
    /\ event = "none"
    /\ lpc = "idle"
    /\ new_setting = NoSetting
    /\ new_src = NoSource
    /\ widx = 0
    /\ w_bit = FALSE
    /\ rpc = [r \in Readers |-> "idle"]
    /\ snap = [r \in Readers |-> NoSetting]
    /\ obs = [r \in Readers |-> NoSetting]
    /\ log = "none"
    /\ published = NoSetting
    /\ published_src = NoSource

LoaderNext == ReadWrapper \/ WatchRead

LoaderSpec == LoaderInit /\ [][LoaderNext]_vars

(***************************************************************************)
(* Properties.                                                             *)
(***************************************************************************)
\* the contents Setting::read loads
Accepted == {c \in FileStates : Accepts(c)}

\* the document Setting::read makes of an accepted content
Loader(c) == Layered(Setting_default, c)

\* the documents Setting::read can return
LoaderDocs == {Loader(c) : c \in Accepted}

\* threads holding a read guard
Holders == {r \in Readers : rpc[r] \in {"held", "observed"}}

\* the step is the callback's call of Setting::read
ReadStep == lpc = "read" /\ lpc' # "read"

\* the step hands the callback the head of the queue
TakeStep ==
    /\ lpc = "idle"
    /\ queue # <<>>
    /\ queue' = Tail(queue)
    /\ watcher' = watcher

\* the callback is past its read, on the way to storing new_setting
Storing == lpc \in {"write", "wait", "assign", "unlock"}

\* C1 (failure isolation): when the callback's Setting::read fails on the
\* file's current content, the callback returns at once: the Setting in the
\* store is the one it was, nothing was written and the lock was not taken.
C1_FailureIsolation ==
    [][(ReadStep /\ ~Accepts(file))
          => /\ setting' = setting
             /\ published' = published
             /\ lpc' = "idle"
             /\ ~w_bit'
             /\ log' = "failed to reload config"]_vars

\* a reload has failed on a file it cannot load and the store holds a document
C1_Witness ==
    /\ Open /\ Watching
    /\ log = "failed to reload config"
    /\ lpc = "idle"
    /\ ~Accepts(file)
    /\ setting = published
    /\ setting \in LoaderDocs

\* C3 (no torn reads): whatever a reader sees through a read guard, when it
\* gets the guard and when it looks again, is as a whole a document that
\* Setting::read returns.
C3_NoTornReads ==
    \A r \in Holders :
        /\ snap[r] \in LoaderDocs
        /\ rpc[r] = "observed" => obs[r] \in LoaderDocs

\* a reader got its guard after a reload stored the test's document
C3_Witness ==
    \E r \in Readers :
        /\ rpc[r] = "held"
        /\ Watching
        /\ log = "Reload config success"
        /\ published_src = NameNostr
        /\ snap[r] = Loader(NameNostr)

\* C4 (construction is fatal on a bad initial load): Setting::watch on a file
\* that Setting::read does not load returns an error, with no store and no
\* watcher; and whenever watch has returned an error there is neither.
C4_ConstructionFatal ==
    /\ [][(Started /\ ctor'.fn = "watch" /\ ~Accepts(file))
             => /\ ctor'.pc = "err_read"
                /\ setting' = NoSetting
                /\ watcher' = "none"]_vars
    /\ [](Failed => setting = NoSetting /\ watcher # "watching" /\ lpc = "idle")

\* watch has returned the error of its first read
C4_Witness ==
    /\ ctor = Returned("watch", "err_read")
    /\ ~Accepts(file)
    /\ setting = NoSetting
    /\ watcher = "none"

\* C5 (snapshot reads): a reader holding a read guard sees, for as long as it
\* holds it, the document that was in the store when it got the guard, and
\* that document is the one stored last: the one before a swap for a reader
\* that came before it, the new one for a reader that came after it.
C5_SnapshotReads ==
    \A r \in Holders :
        /\ snap[r] = published
        /\ setting = snap[r]
        /\ rpc[r] = "observed" => obs[r] = snap[r]

\* a reader holds its guard and has looked twice while the callback waits to
\* store another document
C5_Witness ==
    \E r \in Readers :
        /\ rpc[r] = "observed"
        /\ lpc = "wait"
        /\ w_bit
        /\ new_setting # obs[r]

\* a Modify event is waiting for the callback, or the callback has taken one
\* and is about to read the file
ModifyPending ==
    \/ \E i \in 1..Len(queue) : queue[i] \in {"Modify(Data)", "Modify(Metadata)"}
    \/ lpc = "read"

\* a handle's store holds the document of content b and nothing else is on its
\* way in
Serves(b) ==
    /\ Open
    /\ setting = Loader(b)
    /\ new_setting \in {NoSetting, Loader(b)}

\* the file is written or removed
FileChanges == file' # file

\* C2 (reload replaces): unless the file keeps being changed for ever, whenever
\* the watcher is running, the file holds a content Setting::read accepts and
\* a Modify event is still to be handled, the store comes to hold the document
\* of the file's content (or else the file has become unloadable or the
\* watcher was dropped); and once the store holds the document of the file's
\* content b, with nothing else on its way in, it holds it for as long as the
\* file stays b.
C2_ReloadReplaces ==
    /\ \/ []<><<FileChanges>>_vars
       \/ (Watching /\ Accepts(file) /\ ModifyPending)
             ~> (~Accepts(file) \/ ~Watching \/ Serves(file))
    /\ [][\A b \in Accepted :
             (Serves(b) /\ file = b /\ file' = b) => Serves(b)']_vars

\* the tests' scenario: the file was rewritten to set information.name = "nostr"
\* and the reload of the Modify event has put its document in the place of the
\* different one stored before (the last field, equal in both, is still to copy)
C2_Witness ==
    /\ Watching
    /\ file = NameNostr
    /\ lpc = "assign"
    /\ widx = Len(Fields)
    /\ published # new_setting
    /\ setting.name = Some("nostr")
    /\ Serves(NameNostr)

\* C6 as stated (only content modifications reload): an event whose kind is
\* not a modification of the content is dropped without a call of
\* Setting::read.
C6_OnlyContentModify ==
    [][(TakeStep /\ Head(queue) # "Modify(Data)") => lpc' = "idle"]_vars

\* C6 amended (only Modify events reload): the callback calls Setting::read
\* for the events of kind Modify, the metadata-only ones among them, and for
\* nothing else; a Create or a Remove event is dropped with the store as it was.
C6_OnlyModifyEvents ==
    /\ [][(TakeStep /\ Head(queue) \in {"Create", "Remove"})
             => /\ lpc' = "idle"
                /\ setting' = setting
                /\ log' = log]_vars
    /\ [][(TakeStep /\ Head(queue) \in {"Modify(Data)", "Modify(Metadata)"})
             => lpc' = "read"]_vars
    /\ [](lpc = "read" <=> event \in {"Modify(Data)", "Modify(Metadata)"})

\* the callback was handed a metadata-only event, the file's content being the
\* one the store's document was read from, and is about to call Setting::read
C6_Witness ==
    /\ Watching
    /\ event = "Modify(Metadata)"
    /\ lpc = "read"
    /\ file = published_src
    /\ setting = published

\* the step is one field of the callback's assignment of a loaded document
AssignStep ==
    /\ lpc = "assign"
    /\ w_bit
    /\ Holders = {}
    /\ new_setting \in LoaderDocs
    /\ setting' = [setting EXCEPT ![Fields[widx]] = new_setting[Fields[widx]]]

\* C7 (the listener is the only writer): the Setting in the store changes
\* only by the callback's assignment of a document Setting::read returned,
\* made under the write lock; apart from that it comes into being with the
\* handle and goes with it.
C7_OnlyWriter ==
    [][setting' # setting
          => \/ AssignStep
             \/ Started /\ ctor'.pc \in {"ok", "new"}
             \/ ~Open /\ Failed' /\ setting' = NoSetting]_vars

\* a reader holds a read guard on a store whose document a reload stored
C7_Witness ==
    \E r \in Readers :
        /\ rpc[r] = "observed"
        /\ Watching
        /\ lpc = "idle"
        /\ published_src # NoSource
        /\ log = "Reload config success"
        /\ setting # Setting_default
        /\ obs[r] = setting

\* C8 (the listener survives a bad edit): a handle always has a document
\* behind it, the lock is free whenever the callback is not storing and the
\* callback is always at one of its steps; and, unless the file keeps being
\* changed for ever, after a failed reload, once the file holds an accepted
\* content with a Modify event still to be handled, the store comes to hold
\* the document of the file's content (or else the file has become unloadable
\* again or the watcher was dropped).
C8_SurvivesBadEdit ==
    /\ [](Open => setting # NoSetting)
    /\ [](w_bit => Storing)
    /\ [](lpc \in {"idle", "read"} \/ Storing)
    /\ \/ []<><<FileChanges>>_vars
       \/ (/\ Watching
           /\ log = "failed to reload config"
           /\ Accepts(file)
           /\ ModifyPending)
             ~> (~Accepts(file) \/ ~Watching \/ setting = Loader(file))

\* after a failed reload the file was repaired and the callback has taken the
\* Modify event of the repair
C8_Witness ==
    /\ Watching
    /\ log = "failed to reload config"
    /\ event = "Modify(Data)"
    /\ lpc = "read"
    /\ Accepts(file)
    /\ setting # Loader(file)

\* C9 (duplicate events are harmless): a reload of the content the store's
\* document was loaded from makes an equal document, and storing it changes
\* no field of the store.
C9_DuplicateHarmless ==
    /\ [](Storing /\ new_src = published_src => new_setting = published)
    /\ [][(lpc = "assign" /\ new_src = published_src) => setting' = setting]_vars

\* a reload of unchanged content is about to store its last field
C9_Witness ==
    /\ Watching
    /\ lpc = "assign"
    /\ widx = Len(Fields)
    /\ new_src = published_src
    /\ file = published_src
    /\ setting = published

\* C10 (notifier errors are isolated): handed an Err(e), the callback logs it
\* and returns: Setting::read is not called, the write lock is not taken and
\* the store holds what it held.
C10_NotifierErrorIsolated ==
    [][(TakeStep /\ Head(queue) = "Error")
          => /\ lpc' = "idle"
             /\ ~w_bit'
             /\ setting' = setting
             /\ published' = published
             /\ log' = "failed to watch file"]_vars

\* the callback has returned from an Err(e) and the store holds its document
C10_Witness ==
    /\ Open
    /\ log = "failed to watch file"
    /\ lpc = "idle"
    /\ setting = published
    /\ setting \in LoaderDocs

\* the constructor's read has returned a Setting
Loaded == ctor.pc \in {"ok", "new"}

\* the value a file gives a field, as the field's type has it
FileValue(f, raw) == IF f = "name" THEN Some(raw[2]) ELSE raw[2]

\* C11 (field-by-field merge over the defaults): in the Setting that
\* Setting::read returns, a field the file sets has the file's value and a
\* field it does not set has its default, the other fields of a section that
\* the file sets in part among them; an empty file gives the defaults, and a
\* file that sets only information.name = "nostr" gives that name with
\* network.port = 7707 and limitation.max_subscriptions = 20.
C11_MergeOverDefaults ==
    /\ Loaded =>
          \A f \in FieldSet :
              setting[f] = IF file.tbl[f] = Unset THEN Setting_default[f]
                           ELSE FileValue(f, file.tbl[f])
    /\ (ctor.pc # "start" /\ file \in {EmptyFile, NameNostr, TimeoutSet}) => Loaded
    /\ (Loaded /\ file = EmptyFile) =>
          setting = [name |-> None, port |-> 7707, heartbeat_timeout |-> 120,
                     heartbeat_interval |-> 60, max_subscriptions |-> 20]
    /\ (Loaded /\ file = NameNostr) =>
          /\ setting.name = Some("nostr")
          /\ setting.port = 7707
          /\ setting.max_subscriptions = 20

\* the file sets one field of the network section: the Setting read has it and
\* the defaults of the section's other fields
C11_Witness ==
    /\ Loaded
    /\ file = TimeoutSet
    /\ setting.heartbeat_timeout = 30
    /\ setting.port = 7707
    /\ setting.heartbeat_interval = 60

\* the file cannot be loaded: there is none, it is no TOML, or its port is no number
Unloadable(c) == ~c.exists \/ ~c.syntax \/ c.tbl["port"] = Str_("abc")

\* C12 (the Loader is all-or-nothing): on a path that is no file, a text that
\* does not parse or a port that is no number, Setting::read returns an
\* error and no Setting at all, whatever else the file sets; on any other
\* file of the inputs it returns a Setting.
C12_AllOrNothing ==
    /\ (ctor.pc # "start" /\ Unloadable(file)) =>
          /\ ctor.pc = "err_read"
          /\ setting = NoSetting
          /\ published = NoSetting
    /\ (ctor.pc # "start" /\ ~Unloadable(file)) => (Loaded /\ setting # NoSetting)

\* a file that sets a good name and a port that is no number was refused whole
C12_Witness ==
    /\ ctor.pc = "err_read"
    /\ file.exists /\ file.syntax
    /\ file.tbl["name"] = Str_("nostr")
    /\ file.tbl["port"] = Str_("abc")
    /\ setting = NoSetting

\* a thread is parked in setting.read(): it asked for the lock and the writer
\* bit keeps it out
Parked(r) == rpc[r] = "want" /\ ~SharedFree

\* C13 (readers are never blocked for ever): a thread that calls
\* setting.read() gets its guard in the end, and while it is parked the
\* callback is between its call of write() and the drop of its guard, never
\* in Setting::read.
C13_ReadersGetIn ==
    /\ \A r \in Readers : []<>(rpc[r] # "want")
    /\ [](\A r \in Readers : Parked(r) => lpc \in {"wait", "assign", "unlock"})
    /\ [](lpc = "read" => SharedFree)

\* a thread is parked while the callback assigns the new Setting
C13_Witness == \E r \in Readers : Parked(r) /\ lpc = "assign"

\* C14 (the write lock is held only to publish): the callback holds no lock
\* while Setting::read runs; it calls write() only with the Setting that
\* Setting::read returned in hand, drops the guard as its next step after the
\* assignment, and on the Err arm never touches the lock.
C14_LockOnlyToPublish ==
    /\ [](w_bit => (lpc \in {"wait", "assign", "unlock"} /\ new_setting \in LoaderDocs))
    /\ [][(~w_bit /\ w_bit') =>
             (lpc = "write" /\ new_setting \in LoaderDocs /\ new_setting' = new_setting)]_vars
    /\ [][ReadStep => (~w_bit /\ ~w_bit')]_vars
    /\ [][(lpc = "unlock" /\ lpc' # "unlock") => (~w_bit' /\ lpc' = "idle")]_vars

\* Setting::read runs while a thread holds a read guard: no write lock is held
C14_Witness == lpc = "read" /\ ~w_bit /\ \E r \in Readers : rpc[r] = "held"

\* the watcher's thread hands the callback the next result
Dequeue == queue # <<>> /\ queue' = Tail(queue) /\ watcher' = watcher

\* a reload is under way
Reloading == lpc # "idle"

\* C15 (reloads are serialized): the callback is handed a result only when no
\* call of it is under way; a result that arrives during a reload waits and
\* leaves that reload alone; outside the assignment the store holds one
\* Setting that Setting::read returned, and during it every field is the old
\* Setting's or the new one's.
C15_ReloadsSerialized ==
    /\ [][Dequeue => (~Reloading /\ new_setting = NoSetting /\ ~w_bit)]_vars
    /\ [][(Reloading /\ Len(queue') > Len(queue)) =>
             (lpc' = lpc /\ new_setting' = new_setting /\ setting' = setting)]_vars
    /\ [](lpc # "assign" => setting = published)
    /\ [](published \in LoaderDocs \cup {NoSetting, Setting_default})
    /\ [](lpc = "assign" =>
             \A f \in FieldSet : setting[f] \in {published[f], new_setting[f]})

\* a second Modify event waits while the callback is inside a reload
C15_Witness == lpc = "assign" /\ queue # <<>> /\ is_modify(Head(queue))

\* C16 (every reload starts from the defaults): the Setting a reload brings is
\* Setting::read of the file as it is when the callback reads it, laid over
\* Setting::default() and never over the Setting in the store; a field that
\* the published Setting's file leaves unset is at its default, whatever the
\* Setting before had there.
C16_FromDefaults ==
    /\ [][(ReadStep /\ lpc' = "write") =>
             (new_src' = file /\ new_setting' = Layered(Setting_default, file))]_vars
    /\ [](new_setting # NoSetting => new_setting = Layered(Setting_default, new_src))
    /\ [](published_src # NoSource => published = Layered(Setting_default, published_src))
    /\ [](published_src # NoSource =>
             \A f \in FieldSet :
                 published_src.tbl[f] = Unset => published[f] = Setting_default[f])

\* the published Setting has the name an earlier file gave it, the file read
\* now leaves the name out, and the Setting about to replace it has none
C16_Witness ==
    /\ lpc = "assign"
    /\ published.name = Some("nostr")
    /\ new_src = TimeoutSet
    /\ new_setting.name = None
    /\ new_setting.heartbeat_timeout = 30

\* C17 (the watcher is released on every error return of Setting::watch): when
\* watch returns an error, after watcher.watch failed as well as before a
\* watcher existed, no watcher is alive, no result waits and the callback does
\* not run, then or later; a watcher is alive only inside watch or after watch
\* returned Ok.
C17_WatcherReleased ==
    /\ [](Failed => (watcher \in {"none", "dropped"} /\ queue = <<>> /\ lpc = "idle"))
    /\ [](ctor.pc = "err_watch" => watcher = "dropped")
    /\ [](watcher \in {"created", "watching"} =>
             (ctor.fn = "watch" /\ ctor.pc \in {"watch", "ok"}))
    /\ [][Failed => (lpc' = "idle" /\ queue' = <<>> /\ setting' = setting)]_vars

\* watcher.watch failed on a file that is there, after RecommendedWatcher::new
\* made the watcher
C17_Witness ==
    /\ ctor.pc = "err_watch"
    /\ watcher = "dropped"
    /\ file = NameNostr
    /\ queue = <<>>

\* C18 (heartbeat): in every Setting that Setting::read returned and in the
\* Setting of the store, network.heartbeat_timeout is at least
\* network.heartbeat_interval.
C18_HeartbeatOrdered ==
    /\ setting # NoSetting => setting.heartbeat_timeout >= setting.heartbeat_interval
    /\ new_setting # NoSetting =>
          new_setting.heartbeat_timeout >= new_setting.heartbeat_interval

\* the version of the file a Setting is of; 0 if there is no Setting
DocRank(d) ==
    IF d = NoSetting THEN 0
    ELSE CHOOSE i \in 1..Len(Versions) :
             Accepts(Versions[i]) /\ Layered(Setting_default, Versions[i]) = d

\* C19 (published Settings never go back in time): with the file going
\* through its versions in order, each Setting published to a store is of a
\* version at least as late as the Setting it replaces and no later than the
\* file's, and so is the Setting a reload has in hand, however file writes,
\* events and the callback's steps interleave.
C19_NeverBackInTime ==
    /\ [][(Open /\ Open') => DocRank(published') >= DocRank(published)]_vars
    /\ [](Open => DocRank(published) <= Rank(file))
    /\ [](Storing => (/\ DocRank(new_setting) >= DocRank(published)
                      /\ DocRank(new_setting) <= Rank(file)))

\* a reload is storing the Setting of a version later than the published
\* one's while the file is already at a version later still
C19_Witness ==
    /\ lpc = "assign"
    /\ published = Layered(Setting_default, NameNostr)
    /\ new_setting = Layered(Setting_default, TimeoutSet)
    /\ file = BadPort

\* the watcher was dropped
Dropped == watcher = "dropped"

\* the store of a handle made by read_wrapper or default_wrapper
Unwatched == Open /\ ctor.fn \in {"read_wrapper", "default_wrapper"}

=============================================================================
